---- MODULE Spec2Model ----
(***************************************************************************)
(* Desk layout engine: calculateDeskLayout(people) groups people by team,  *)
(* orders each team by dog preference, sorts the teams into eight          *)
(* categories and concatenates the categories in a fixed order.            *)
(***************************************************************************)
EXTENDS Integers, Sequences, FiniteSets, TLC

VARIABLES people, pc, teamGroups, teamsInMiddle, bothEndHaveIndex,
          onlyLikeIndex, haveEndLikeIndex, result

vars == <<people, pc, teamGroups, teamsInMiddle, bothEndHaveIndex,
          onlyLikeIndex, haveEndLikeIndex, result>>

(***************************************************************************)
(* Bounds of the explored inputs.                                          *)
(***************************************************************************)
MaxPeople == 3

MaxTeamSize == 7

MaxTeams == 4

(***************************************************************************)
(* Person records.  team is a team id or NoTeam (person.team absent);      *)
(* dogStatus is one of the three enum values or Unset (absent).            *)
(***************************************************************************)
NoTeam == "absent"

Unset == "UNSET"

DogStatus == {"AVOID", "LIKE", "HAVE"}

Person(i, t, d) == [id |-> i, team |-> t, dogStatus |-> d]

Min(a, b) == IF a < b THEN a ELSE b

\* Array.prototype.slice(from, to) on a 1-based sequence, 0-based indices.
Slice(s, from, to) == SubSeq(s, from + 1, Min(to, Len(s)))

RECURSIVE Flatten(_)
Flatten(teams) ==
    IF teams = <<>> THEN <<>>
    ELSE Head(teams).members \o Flatten(Tail(teams))

(***************************************************************************)
(* 1. Group people by team                                                 *)
(***************************************************************************)
TeamId(person) == IF person.team = NoTeam THEN "none" ELSE person.team

HasKey(groups, k) == \E g \in 1..Len(groups) : groups[g].key = k

GroupPush_NoMerge(groups, person) ==
    Append(groups, [key |-> TeamId(person), members |-> <<person>>])

GroupPush(groups, person) ==
    LET k == TeamId(person)
        withKey == IF HasKey(groups, k) THEN groups
                   ELSE Append(groups, [key |-> k, members |-> <<>>])
    IN [g \in 1..Len(withKey) |->
          IF withKey[g].key = k
          THEN [withKey[g] EXCEPT !.members = Append(@, person)]
          ELSE withKey[g]]

\* The for loop over people: the groups after the first n people (the set
\* binds the value of the previous iteration once).
RECURSIVE GroupUpTo(_, _)
GroupUpTo(ps, n) ==
    IF n = 0 THEN <<>>
    ELSE CHOOSE r \in {GroupPush(groups, ps[n]) : groups \in {GroupUpTo(ps, n - 1)}} : TRUE

GroupByTeam(ps) == GroupUpTo(ps, Len(ps))

(***************************************************************************)
(* 2. Order the members of one team                                        *)
(***************************************************************************)
IsAvoid(p) == p.dogStatus = "AVOID"

IsHave(p) == p.dogStatus = "HAVE"

IsLike(p) == p.dogStatus = "LIKE"

RECURSIVE Reverse(_)
Reverse(s) == IF s = <<>> THEN <<>> ELSE Append(Reverse(Tail(s)), Head(s))

AvoidOf(team) == SelectSeq(team, IsAvoid)

HaveOf(team) == SelectSeq(team, IsHave)

LikeOf_Reversed(team) == Reverse(SelectSeq(team, IsLike))

LikeOf(team) == SelectSeq(team, IsLike)

LikesPerGap(like, have) == Len(like) \div (Len(have) + 1)

ExtraLikes(like, have) == Len(like) % (Len(have) + 1)

InitialLikes_NoExtra(like, have) == LikesPerGap(like, have)

InitialLikes(like, have) ==
    LikesPerGap(like, have) + (IF ExtraLikes(like, have) > 0 THEN 1 ELSE 0)

LikesToAdd_OffByOne(like, have, i) ==
    LikesPerGap(like, have) + (IF ExtraLikes(like, have) > i THEN 1 ELSE 0)

LikesToAdd(like, have, i) ==
    LikesPerGap(like, have) + (IF ExtraLikes(like, have) > i + 1 THEN 1 ELSE 0)

\* The for loop over have (i is the 0-based loop index); st = [team, likeIndex].
RECURSIVE AlternateHaveLike(_, _, _, _)
AlternateHaveLike(st, like, have, i) ==
    IF i >= Len(have) THEN st
    ELSE LET pushed == Append(st.team, have[i + 1])
             n == LikesToAdd(like, have, i)
         IN IF i < Len(have) - 1
            THEN AlternateHaveLike(
                   [team |-> pushed \o Slice(like, st.likeIndex, st.likeIndex + n),
                    likeIndex |-> st.likeIndex + n],
                   like, have, i + 1)
            ELSE AlternateHaveLike([team |-> pushed, likeIndex |-> st.likeIndex],
                                   like, have, i + 1)

RemainingLikes_Dropped(like, likeIndex) == <<>>

RemainingLikes(like, likeIndex) ==
    IF likeIndex < Len(like) THEN Slice(like, likeIndex, Len(like)) ELSE <<>>

OrderManyHave(avoid, like, have) ==
    LET initialLikes == InitialLikes(like, have)
        start == [team |-> avoid \o Slice(like, 0, initialLikes),
                  likeIndex |-> initialLikes]
        after == AlternateHaveLike(start, like, have, 0)
    IN after.team \o RemainingLikes(like, after.likeIndex)

OrderFewHave_HaveFirst(avoid, like, have) == avoid \o have \o like

OrderFewHave(avoid, like, have) == avoid \o like \o have

OrderTeam(team) ==
    LET avoid == AvoidOf(team)
        have == HaveOf(team)
        like == LikeOf(team)
    IN IF Len(have) > 1 THEN OrderManyHave(avoid, like, have)
       ELSE OrderFewHave(avoid, like, have)

SortTeamMembers(groups) ==
    [g \in 1..Len(groups) |->
        [groups[g] EXCEPT !.members = OrderTeam(groups[g].members)]]

(***************************************************************************)
(* 3. Categorize the ordered teams into 8 categories                       *)
(***************************************************************************)
Some(team, status) == \E i \in 1..Len(team) : team[i].dogStatus = status

Every(team, status) == \A i \in 1..Len(team) : team[i].dogStatus = status

LastStatus(team) == team[Len(team)].dogStatus

HasAvoidAndHave(t) == Some(t.members, "AVOID") /\ Some(t.members, "HAVE")

NotAvoidAndHave(t) == ~(Some(t.members, "AVOID") /\ Some(t.members, "HAVE"))

TeamsWithAvoidAndHave(teams) == SelectSeq(teams, HasAvoidAndHave)

RemainingTeams(teams) == SelectSeq(teams, NotAvoidAndHave)

\* team[0].dogStatus on an empty team reads a property of undefined: TypeError.
Throws(teams) ==
    \E g \in 1..Len(RemainingTeams(teams)) : Len(RemainingTeams(teams)[g].members) = 0

EndsHave(t) == LastStatus(t.members) = "HAVE"

EndsLike(t) == LastStatus(t.members) = "LIKE"

TeamsWithBothEndHave(teams) == SelectSeq(TeamsWithAvoidAndHave(teams), EndsHave)

TeamsWithBothEndLike(teams) == SelectSeq(TeamsWithAvoidAndHave(teams), EndsLike)

SamePreferences(t) == Every(t.members, t.members[1].dogStatus)

DifferentPreferences(t) == ~Every(t.members, t.members[1].dogStatus)

TeamsSamePreferences(teams) == SelectSeq(RemainingTeams(teams), SamePreferences)

TeamsDifferentPreferences(teams) == SelectSeq(RemainingTeams(teams), DifferentPreferences)

FirstAvoid(t) == t.members[1].dogStatus = "AVOID"

FirstLike(t) == t.members[1].dogStatus = "LIKE"

FirstHave(t) == t.members[1].dogStatus = "HAVE"

TeamsOnlyAvoid(teams) == SelectSeq(TeamsSamePreferences(teams), FirstAvoid)

TeamsOnlyLike(teams) == SelectSeq(TeamsSamePreferences(teams), FirstLike)

TeamsOnlyHave(teams) == SelectSeq(TeamsSamePreferences(teams), FirstHave)

IsAvoidEndLike(t) ==
    /\ Some(t.members, "AVOID")
    /\ ~Some(t.members, "HAVE")
    /\ LastStatus(t.members) = "LIKE"

IsHaveEndLike(t) ==
    /\ Some(t.members, "HAVE")
    /\ ~Some(t.members, "AVOID")
    /\ LastStatus(t.members) = "LIKE"

IsHaveEndHave(t) ==
    /\ Some(t.members, "HAVE")
    /\ ~Some(t.members, "AVOID")
    /\ LastStatus(t.members) = "HAVE"

TeamsAvoidEndLike(teams) == SelectSeq(TeamsDifferentPreferences(teams), IsAvoidEndLike)

TeamsHaveEndLike(teams) == SelectSeq(TeamsDifferentPreferences(teams), IsHaveEndLike)

TeamsHaveEndHave(teams) == SelectSeq(TeamsDifferentPreferences(teams), IsHaveEndHave)

(***************************************************************************)
(* 4. Middle teams: BothEndHave teams with OnlyLike / HaveEndLike buffers  *)
(***************************************************************************)
\* Loop state s = [teamsInMiddle, bothEndHaveIndex, onlyLikeIndex, haveEndLikeIndex].
MiddleStart(teams) ==
    [teamsInMiddle |-> <<TeamsWithBothEndHave(teams)[1]>>,
     bothEndHaveIndex |-> 1,
     onlyLikeIndex |-> 0,
     haveEndLikeIndex |-> 0]

MiddleCond(s, teams) ==
    \/ s.bothEndHaveIndex < Len(TeamsWithBothEndHave(teams))
    \/ s.onlyLikeIndex < Len(TeamsOnlyLike(teams))
    \/ s.haveEndLikeIndex < Len(TeamsHaveEndLike(teams))

MiddleBuffer_HaveEndLikeFirst(s, teams) ==
    IF s.haveEndLikeIndex < Len(TeamsHaveEndLike(teams))
    THEN [s EXCEPT !.teamsInMiddle = Append(@, TeamsHaveEndLike(teams)[s.haveEndLikeIndex + 1]),
                   !.haveEndLikeIndex = @ + 1]
    ELSE IF s.onlyLikeIndex < Len(TeamsOnlyLike(teams))
    THEN [s EXCEPT !.teamsInMiddle = Append(@, TeamsOnlyLike(teams)[s.onlyLikeIndex + 1]),
                   !.onlyLikeIndex = @ + 1]
    ELSE s

MiddleBuffer(s, teams) ==
    IF s.onlyLikeIndex < Len(TeamsOnlyLike(teams))
    THEN [s EXCEPT !.teamsInMiddle = Append(@, TeamsOnlyLike(teams)[s.onlyLikeIndex + 1]),
                   !.onlyLikeIndex = @ + 1]
    ELSE IF s.haveEndLikeIndex < Len(TeamsHaveEndLike(teams))
    THEN [s EXCEPT !.teamsInMiddle = Append(@, TeamsHaveEndLike(teams)[s.haveEndLikeIndex + 1]),
                   !.haveEndLikeIndex = @ + 1]
    ELSE s

MiddleNextBoth(s, teams) ==
    IF s.bothEndHaveIndex < Len(TeamsWithBothEndHave(teams))
    THEN [s EXCEPT !.teamsInMiddle = Append(@, TeamsWithBothEndHave(teams)[s.bothEndHaveIndex + 1]),
                   !.bothEndHaveIndex = @ + 1]
    ELSE s

MiddleStep(s, teams) == MiddleNextBoth(MiddleBuffer(s, teams), teams)

RECURSIVE MiddleLoop(_, _)
MiddleLoop(s, teams) ==
    IF MiddleCond(s, teams) THEN MiddleLoop(MiddleStep(s, teams), teams) ELSE s

MiddleNoBoth(teams) == TeamsOnlyLike(teams) \o TeamsHaveEndLike(teams)

TeamsInMiddle(teams) ==
    IF Len(TeamsWithBothEndHave(teams)) > 0
    THEN MiddleLoop(MiddleStart(teams), teams).teamsInMiddle
    ELSE MiddleNoBoth(teams)

(***************************************************************************)
(* 5. Final desk layout                                                    *)
(***************************************************************************)
Compose_HaveFirst(teams, middle) ==
    Flatten(TeamsOnlyHave(teams)) \o Flatten(TeamsAvoidEndLike(teams))
      \o Flatten(TeamsWithBothEndLike(teams)) \o Flatten(middle)
      \o Flatten(TeamsHaveEndHave(teams)) \o Flatten(TeamsOnlyAvoid(teams))

Compose(teams, middle) ==
    Flatten(TeamsOnlyAvoid(teams)) \o Flatten(TeamsAvoidEndLike(teams))
      \o Flatten(TeamsWithBothEndLike(teams)) \o Flatten(middle)
      \o Flatten(TeamsHaveEndHave(teams)) \o Flatten(TeamsOnlyHave(teams))

\* The whole function: [threw, result]; result is meaningful when ~threw.
CalculateDeskLayout(ps) ==
    IF Len(ps) = 0 THEN [threw |-> FALSE, result |-> <<>>]
    ELSE LET teams == SortTeamMembers(GroupByTeam(ps))
         IN IF Throws(teams) THEN [threw |-> TRUE, result |-> <<>>]
            ELSE [threw |-> FALSE, result |-> Compose(teams, TeamsInMiddle(teams))]

(***************************************************************************)
(* Inputs                                                                  *)
(***************************************************************************)
TeamNames == <<"T1", "T2", "T3", "T4", "T5", "T6">>

\* Any list of at most MaxPeople people over two teams and team-less people,
\* with set or unset dog status.
SmallTeamRefs == {TeamNames[1], TeamNames[2], NoTeam}

SmallInputs ==
    UNION {{[i \in 1..n |-> Person(i, f[i][1], f[i][2])] :
              f \in [1..n -> SmallTeamRefs \X (DogStatus \cup {Unset})]} :
           n \in 0..MaxPeople}

Repeat(n, d, t, base) == [i \in 1..n |-> Person(base + i, t, d)]

\* One team of l LIKE, a AVOID, h HAVE people, listed in that order (the
\* order of the example in the doc comment) or in the reverse order.
OneTeam(l, a, h, t, base) ==
    Repeat(l, "LIKE", t, base) \o Repeat(a, "AVOID", t, base + l)
      \o Repeat(h, "HAVE", t, base + l + a)

Renumber(ps) == [i \in 1..Len(ps) |-> [ps[i] EXCEPT !.id = i]]

SingleTeamInputs ==
    UNION {{OneTeam(c[1], c[2], c[3], TeamNames[1], 0),
            Renumber(Reverse(OneTeam(c[1], c[2], c[3], TeamNames[1], 0)))} :
           c \in {c \in (0..MaxTeamSize) \X (0..MaxTeamSize) \X (0..MaxTeamSize) :
                    c[1] + c[2] + c[3] \in 1..MaxTeamSize}}

\* One team shape per category (l, a, h).
Shapes ==
    {<<0, 1, 0>>, <<1, 0, 0>>, <<0, 0, 1>>, <<1, 1, 0>>,
     <<3, 0, 2>>, <<1, 0, 1>>, <<0, 1, 1>>, <<3, 1, 2>>}

RECURSIVE RoundRobin(_)
RoundRobin(ts) ==
    LET nonEmpty == SelectSeq(ts, LAMBDA t : t # <<>>)
    IN IF nonEmpty = <<>> THEN <<>>
       ELSE [i \in 1..Len(nonEmpty) |-> Head(nonEmpty[i])]
              \o RoundRobin([i \in 1..Len(nonEmpty) |-> Tail(nonEmpty[i])])

TeamRefs == <<NoTeam>> \o TeamNames

\* The team-less people and up to MaxTeams - 1 teams, each of one of the shapes, their members dealt
\* round-robin into the input list.
ManyTeamInputs ==
    UNION {{Renumber(RoundRobin([k \in 1..n |->
                OneTeam(f[k][1], f[k][2], f[k][3], TeamRefs[k], 0)])) :
              f \in [1..n -> Shapes]} :
           n \in 2..MaxTeams}

Inputs == SmallInputs \cup SingleTeamInputs \cup ManyTeamInputs

(***************************************************************************)
(* calculateDeskLayout as a state machine, one action per stage            *)
(***************************************************************************)
Init ==
    /\ people = <<>>
    /\ pc = "idle"
    /\ teamGroups = <<>>
    /\ teamsInMiddle = <<>>
    /\ bothEndHaveIndex = 0
    /\ onlyLikeIndex = 0
    /\ haveEndLikeIndex = 0
    /\ result = <<>>

LoopState ==
    [teamsInMiddle |-> teamsInMiddle,
     bothEndHaveIndex |-> bothEndHaveIndex,
     onlyLikeIndex |-> onlyLikeIndex,
     haveEndLikeIndex |-> haveEndLikeIndex]

SetLoopState(s) ==
    /\ teamsInMiddle' = s.teamsInMiddle
    /\ bothEndHaveIndex' = s.bothEndHaveIndex
    /\ onlyLikeIndex' = s.onlyLikeIndex
    /\ haveEndLikeIndex' = s.haveEndLikeIndex

LoopVars == <<teamsInMiddle, bothEndHaveIndex, onlyLikeIndex, haveEndLikeIndex>>

\* A caller hands a list of people to calculateDeskLayout.
Call ==
    /\ pc = "idle"
    /\ people' \in Inputs
    /\ pc' = "start"
    /\ UNCHANGED <<teamGroups, LoopVars, result>>

ReturnEmpty ==
    /\ pc = "start"
    /\ Len(people) = 0
    /\ pc' = "done"
    /\ result' = <<>>
    /\ UNCHANGED <<people, teamGroups, LoopVars>>

Group ==
    /\ pc = "start"
    /\ Len(people) # 0
    /\ teamGroups' = GroupByTeam(people)
    /\ pc' = "grouped"
    /\ UNCHANGED <<people, LoopVars, result>>

Sort ==
    /\ pc = "grouped"
    /\ teamGroups' = SortTeamMembers(teamGroups)
    /\ pc' = "sorted"
    /\ UNCHANGED <<people, LoopVars, result>>

CategorizeThrows ==
    /\ pc = "sorted"
    /\ Throws(teamGroups)
    /\ pc' = "threw"
    /\ UNCHANGED <<people, teamGroups, LoopVars, result>>

MiddleBegin ==
    /\ pc = "sorted"
    /\ ~Throws(teamGroups)
    /\ Len(TeamsWithBothEndHave(teamGroups)) > 0
    /\ SetLoopState(MiddleStart(teamGroups))
    /\ pc' = "loop"
    /\ UNCHANGED <<people, teamGroups, result>>

MiddleIterate ==
    /\ pc = "loop"
    /\ MiddleCond(LoopState, teamGroups)
    /\ SetLoopState(MiddleStep(LoopState, teamGroups))
    /\ pc' = "loop"
    /\ UNCHANGED <<people, teamGroups, result>>

MiddleExit ==
    /\ pc = "loop"
    /\ ~MiddleCond(LoopState, teamGroups)
    /\ pc' = "emit"
    /\ UNCHANGED <<people, teamGroups, LoopVars, result>>

MiddleWithoutBoth ==
    /\ pc = "sorted"
    /\ ~Throws(teamGroups)
    /\ Len(TeamsWithBothEndHave(teamGroups)) = 0
    /\ teamsInMiddle' = MiddleNoBoth(teamGroups)
    /\ pc' = "emit"
    /\ UNCHANGED <<people, teamGroups, bothEndHaveIndex, onlyLikeIndex,
                   haveEndLikeIndex, result>>

Emit ==
    /\ pc = "emit"
    /\ result' = Compose(teamGroups, teamsInMiddle)
    /\ pc' = "done"
    /\ UNCHANGED <<people, teamGroups, LoopVars>>

Next ==
    \/ Call
    \/ ReturnEmpty
    \/ Group
    \/ Sort
    \/ CategorizeThrows
    \/ MiddleBegin
    \/ MiddleIterate
    \/ MiddleExit
    \/ MiddleWithoutBoth
    \/ Emit

Spec == Init /\ [][Next]_vars

\* The function runs to completion once called.
FairSpec == Spec /\ WF_vars(Next)

\* The staged run and the function agree.
StagesAgree ==
    /\ pc = "done" => CalculateDeskLayout(people) = [threw |-> FALSE, result |-> result]
    /\ pc = "threw" => CalculateDeskLayout(people).threw

(***************************************************************************)
(* Vocabulary of the properties, stated on the input and the output only   *)
(***************************************************************************)
Classified(ps) == \A i \in 1..Len(ps) : ps[i].dogStatus \in DogStatus

Ids(ps) == [i \in 1..Len(ps) |-> ps[i].id]

Statuses(ps) == [i \in 1..Len(ps) |-> ps[i].dogStatus]

KeysOf(ps) == {TeamId(ps[i]) : i \in 1..Len(ps)}

MembersOf(ps, k) == SelectSeq(ps, LAMBDA p : TeamId(p) = k)

FirstPos(ps, k) == CHOOSE i \in 1..Len(ps) :
                      /\ TeamId(ps[i]) = k
                      /\ \A j \in 1..(i - 1) : TeamId(ps[j]) # k

Count(f, status) == Cardinality({i \in DOMAIN f : f[i] = status})

Sorted == pc \in {"sorted", "loop", "emit", "done", "threw"}

\* The ordered block of team k once the teams are ordered.
BlockOf(k) == LET g == CHOOSE g \in 1..Len(teamGroups) : teamGroups[g].key = k
              IN teamGroups[g].members

\* C1: for classified input the call returns, and the returned list is a
\* permutation of the input: same length, every input person exactly once.
C1_Permutation ==
    Classified(people) =>
       /\ pc # "threw"
       /\ pc = "done" =>
            /\ Len(result) = Len(people)
            /\ \A i \in 1..Len(people) :
                 Cardinality({j \in 1..Len(result) : result[j] = people[i]}) = 1

C1_Witness ==
    /\ pc = "done"
    /\ Classified(people)
    /\ Cardinality(KeysOf(people)) >= 3
    /\ "none" \in KeysOf(people)
    /\ Len(people) >= 8
    /\ Ids(result) # Ids(people)
    /\ Len(TeamsWithBothEndLike(teamGroups)) > 0
    /\ Len(teamsInMiddle) >= 2

\* C2: in the returned list the members of each team (team-less people
\* forming one team) occupy a contiguous run of positions.
C2_TeamContiguity ==
    pc = "done" =>
       \A i, j \in 1..Len(result) :
          (i < j /\ TeamId(result[i]) = TeamId(result[j])) =>
             \A k \in i..j : TeamId(result[k]) = TeamId(result[i])

C2_Witness ==
    /\ pc = "done"
    /\ Len(result) = Len(people)
    /\ \E i, j, k \in 1..Len(people) :
          /\ i < k /\ k < j
          /\ people[i].team = NoTeam /\ people[j].team = NoTeam
          /\ people[k].team # NoTeam

\* A team of the input all of whose members have no recognised dogStatus.
UnclassifiedTeams(ps) ==
    {k \in KeysOf(ps) :
        \A i \in 1..Len(ps) : TeamId(ps[i]) = k => ps[i].dogStatus \notin DogStatus}

WithoutUnclassifiedTeams(ps) ==
    SelectSeq(ps, LAMBDA p : TeamId(p) \notin UnclassifiedTeams(ps))

\* C3: with a team whose members are all unclassified in the input, the call
\* does not fail and returns the layout of the input without that team.
C3_UnclassifiedTeamOmitted ==
    (UnclassifiedTeams(people) # {} /\ pc \in {"done", "threw"}) =>
       /\ pc = "done"
       /\ result = CalculateDeskLayout(WithoutUnclassifiedTeams(people)).result

\* Size of the buffer of LIKE members placed before the HAVE member of
\* 0-based index i in a team of h HAVE and l LIKE members.
BufferBefore(i, h, l) ==
    (l \div (h + 1)) + (IF (l % (h + 1)) > i THEN 1 ELSE 0)

RECURSIVE BuffersUpTo(_, _, _)
BuffersUpTo(i, h, l) ==
    IF i < 0 THEN 0 ELSE BufferBefore(i, h, l) + BuffersUpTo(i - 1, h, l)

DocExample == OneTeam(2, 1, 2, TeamNames[1], 0)

DocExampleWithoutBob == OneTeam(1, 1, 2, TeamNames[1], 0)

\* C4: a team with h > 1 HAVE members is ordered as: all AVOID members, then
\* before the HAVE member of 0-based index i a buffer of floor(l/(h+1)) LIKE
\* members plus one if l mod (h+1) > i, the LIKE members left over after the
\* last HAVE member; AVOID, LIKE and HAVE members keep their input order.
\* The example of the doc comment is ordered Charlie, Alice, David, Bob, Eve
\* and, without Bob, Charlie, Alice, David, Eve.
C4_ManyHaveOrder ==
    /\ Sorted =>
         \A k \in KeysOf(people) :
            LET raw == MembersOf(people, k)
                av == SelectSeq(raw, IsAvoid)
                hv == SelectSeq(raw, IsHave)
                lk == SelectSeq(raw, IsLike)
                block == BlockOf(k)
            IN Len(hv) > 1 =>
                 /\ Len(block) = Len(av) + Len(hv) + Len(lk)
                 /\ SubSeq(block, 1, Len(av)) = av
                 /\ SelectSeq(block, IsHave) = hv
                 /\ SelectSeq(block, IsLike) = lk
                 /\ \A i \in 0..(Len(hv) - 1) :
                      block[Len(av) + BuffersUpTo(i, Len(hv), Len(lk)) + i + 1]
                        = hv[i + 1]
    /\ (pc = "done" /\ people = DocExample) => Ids(result) = <<3, 1, 4, 2, 5>>
    /\ (pc = "done" /\ people = DocExampleWithoutBob) => Ids(result) = <<2, 1, 3, 4>>

C4_Witness ==
    /\ pc = "done"
    /\ Len(teamGroups) = 1
    /\ Len(HaveOf(people)) = 2
    /\ Len(LikeOf(people)) = 4
    /\ Len(AvoidOf(people)) = 1
    /\ Statuses(result) = <<"AVOID", "LIKE", "LIKE", "HAVE", "LIKE", "HAVE", "LIKE">>

\* Number of LIKE members placed before the first HAVE member of a block.
LikesBeforeFirstHave(block) ==
    LET firstHave == CHOOSE i \in 1..Len(block) :
                        /\ IsHave(block[i])
                        /\ \A j \in 1..(i - 1) : ~IsHave(block[j])
    IN Cardinality({j \in 1..(firstHave - 1) : IsLike(block[j])})

TwoHaveFiveLike(k) ==
    /\ Len(HaveOf(MembersOf(people, k))) = 2
    /\ Len(LikeOf(MembersOf(people, k))) = 5

\* C5 as stated: with 2 HAVE and 5 LIKE members the first buffer holds 3.
C5_FirstBufferIsThree ==
    Sorted => \A k \in KeysOf(people) :
                 TwoHaveFiveLike(k) => LikesBeforeFirstHave(BlockOf(k)) = 3

\* C5: with 2 HAVE and 5 LIKE members the first buffer holds
\* floor(5/3) + 1 = 2 LIKE members.
C5_FirstBufferIsTwo ==
    Sorted => \A k \in KeysOf(people) :
                 TwoHaveFiveLike(k) => LikesBeforeFirstHave(BlockOf(k)) = 2

C5_Witness ==
    /\ pc = "done"
    /\ \E k \in KeysOf(people) : TwoHaveFiveLike(k)
    /\ Len(result) = 7

\* Smallest distance between an AVOID and a HAVE position of a line of statuses.
MinDistance(line) ==
    LET ds == {IF i < j THEN j - i ELSE i - j :
                 <<i, j>> \in {p \in (DOMAIN line) \X (DOMAIN line) :
                                 line[p[1]] = "AVOID" /\ line[p[2]] = "HAVE"}}
    IN CHOOSE d \in ds : \A e \in ds : d <= e

\* Every line holding the same numbers of AVOID, LIKE and HAVE members.
Arrangements(line) ==
    {f \in [1..Len(line) -> DogStatus] :
        /\ Count(f, "AVOID") = Count(line, "AVOID")
        /\ Count(f, "HAVE") = Count(line, "HAVE")}

MixedClassifiedTeam(k) ==
    /\ Classified(MembersOf(people, k))
    /\ Some(MembersOf(people, k), "AVOID")
    /\ Some(MembersOf(people, k), "HAVE")

MaximizesMinDistance(block) ==
    \A r \in Arrangements(Statuses(block)) :
       MinDistance(r) <= MinDistance(Statuses(block))

\* C6 as stated: the order of every team with AVOID and HAVE members
\* maximizes the minimum distance between an AVOID and a HAVE member.
C6_MaxMinDistance ==
    pc = "sorted" =>
       \A k \in KeysOf(people) :
          MixedClassifiedTeam(k) => MaximizesMinDistance(BlockOf(k))

\* C6: the order of a team with AVOID and HAVE members maximizes the minimum
\* distance between an AVOID and a HAVE member when the team has exactly one
\* HAVE member or at most one LIKE member.
C6_MaxMinDistanceOneHave ==
    pc = "sorted" =>
       \A k \in KeysOf(people) :
          (/\ MixedClassifiedTeam(k)
           /\ \/ Len(HaveOf(MembersOf(people, k))) = 1
              \/ Len(LikeOf(MembersOf(people, k))) <= 1)
             => MaximizesMinDistance(BlockOf(k))

C6_Witness ==
    /\ pc = "sorted"
    /\ \E k \in KeysOf(people) :
          /\ MixedClassifiedTeam(k)
          /\ Len(HaveOf(MembersOf(people, k))) = 1
          /\ Len(LikeOf(MembersOf(people, k))) = 3
          /\ MinDistance(Statuses(BlockOf(k))) = 4

\* The category of an ordered block, read off the table of categories.
CategoryOf(block) ==
    LET a == Some(block, "AVOID")
        h == Some(block, "HAVE")
        l == Some(block, "LIKE")
    IN IF a /\ h THEN (IF LastStatus(block) = "HAVE" THEN "BothEndHave" ELSE "BothEndLike")
       ELSE IF a THEN (IF l THEN "AvoidEndLike" ELSE "OnlyAvoid")
       ELSE IF h THEN (IF ~l THEN "OnlyHave"
                       ELSE IF LastStatus(block) = "HAVE" THEN "HaveEndHave"
                       ELSE "HaveEndLike")
       ELSE "OnlyLike"

\* Place of a category in the final sequence.
Rank(cat) ==
    CASE cat = "OnlyAvoid" -> 1
      [] cat = "AvoidEndLike" -> 2
      [] cat = "BothEndLike" -> 3
      [] cat \in {"BothEndHave", "OnlyLike", "HaveEndLike"} -> 4
      [] cat = "HaveEndHave" -> 5
      [] cat = "OnlyHave" -> 6

\* C7: in the returned list the team blocks follow the category order
\* OnlyAvoid, AvoidEndLike, BothEndLike, middle block, HaveEndHave, OnlyHave,
\* and teams of one category keep the order of first appearance in the
\* input; so every all-AVOID team precedes every all-HAVE team.
C7_CategoryOrder ==
    pc = "done" =>
       \A k1, k2 \in KeysOf(result) :
          (k1 # k2 /\ FirstPos(result, k1) < FirstPos(result, k2)) =>
             LET c1 == CategoryOf(MembersOf(result, k1))
                 c2 == CategoryOf(MembersOf(result, k2))
             IN /\ Rank(c1) <= Rank(c2)
                /\ c1 = c2 => FirstPos(people, k1) < FirstPos(people, k2)
                /\ (c1 = "OnlyHave") => (c2 # "OnlyAvoid")

C7_Witness ==
    /\ pc = "done"
    /\ Cardinality(KeysOf(result)) = 4
    /\ \E k1, k2 \in KeysOf(result) :
          /\ CategoryOf(MembersOf(result, k1)) = "OnlyAvoid"
          /\ CategoryOf(MembersOf(result, k2)) = "OnlyHave"
          /\ FirstPos(people, k2) < FirstPos(people, k1)
    /\ \E k1, k2 \in KeysOf(result) :
          /\ k1 # k2
          /\ CategoryOf(MembersOf(result, k1)) = "HaveEndHave"
          /\ CategoryOf(MembersOf(result, k2)) = "HaveEndHave"

\* C8: within a team block of the returned list an AVOID member sits next to
\* a HAVE member only if the team has no LIKE member; a team with AVOID, HAVE
\* and LIKE members has a LIKE member between its last AVOID and first HAVE.
C8_BufferBetweenAvoidAndHave ==
    pc = "done" =>
       /\ \A i \in 1..(Len(result) - 1) :
             (/\ TeamId(result[i]) = TeamId(result[i + 1])
              /\ {result[i].dogStatus, result[i + 1].dogStatus} = {"AVOID", "HAVE"})
               => ~Some(MembersOf(result, TeamId(result[i])), "LIKE")
       /\ \A k \in KeysOf(result) :
             LET block == MembersOf(result, k)
             IN (Some(block, "AVOID") /\ Some(block, "HAVE") /\ Some(block, "LIKE")) =>
                  \E m \in 1..Len(block) :
                     /\ IsLike(block[m])
                     /\ \A i \in 1..Len(block) : IsAvoid(block[i]) => i < m
                     /\ \A i \in 1..Len(block) : IsHave(block[i]) => m < i

C8_Witness ==
    /\ pc = "done"
    /\ \E k \in KeysOf(result) :
          /\ Len(HaveOf(MembersOf(result, k))) = 2
          /\ Len(LikeOf(MembersOf(result, k))) = 1
          /\ Len(AvoidOf(MembersOf(result, k))) = 2

\* The ordered teams of one category, in the order of the grouping.
Bucket(cat) == SelectSeq(teamGroups, LAMBDA t : CategoryOf(t.members) = cat)

\* B1, U1, B2, U2, ... while both last, then the rest of the longer one.
Interleaved(B, U) ==
    [n \in 1..(Len(B) + Len(U)) |->
        LET m == Min(Len(B), Len(U))
        IN IF n <= 2 * m
           THEN (IF n % 2 = 1 THEN B[(n + 1) \div 2] ELSE U[n \div 2])
           ELSE IF Len(B) > Len(U) THEN B[n - m] ELSE U[n - m]]

MiddleAsSpecified ==
    pc \in {"emit", "done"} =>
       teamsInMiddle = Interleaved(Bucket("BothEndHave"),
                                   Bucket("OnlyLike") \o Bucket("HaveEndLike"))

\* C9: the composer's loop terminates, and the middle block holds every
\* BothEndHave, OnlyLike and HaveEndLike team once: the first BothEndHave
\* team, then alternately one buffer team (OnlyLike teams before HaveEndLike
\* teams) and the next BothEndHave team while both last, then the rest;
\* without BothEndHave teams, the OnlyLike teams then the HaveEndLike teams.
C9_MiddleBlock ==
    /\ <>[](pc \in {"done", "threw"})
    /\ [](MiddleAsSpecified)

C9_Witness ==
    /\ pc = "done"
    /\ Len(Bucket("BothEndHave")) = 2
    /\ Len(Bucket("OnlyLike")) = 1
    /\ Len(Bucket("HaveEndLike")) = 1
    /\ FirstPos(people, Bucket("HaveEndLike")[1].key)
         < FirstPos(people, Bucket("OnlyLike")[1].key)
    /\ Len(teamsInMiddle) = 4

\* C10: for classified input, laying out the returned list again returns it
\* unchanged.
C10_Idempotent ==
    (pc = "done" /\ Classified(people)) =>
       CalculateDeskLayout(result) = [threw |-> FALSE, result |-> result]

C10_Witness ==
    /\ pc = "done"
    /\ Classified(people)
    /\ Ids(result) # Ids(people)
    /\ Len(Bucket("BothEndHave")) >= 1
    /\ Len(Bucket("HaveEndLike")) >= 1
    /\ Len(Bucket("OnlyLike")) >= 1
    /\ Len(Bucket("BothEndLike")) >= 1

====
